---- MODULE Spec2Model ----
(***************************************************************************)
(* A model of ITM_lookup's main.py: the word normalisation pipeline        *)
(* (process_icelandic_word, _rule_based_process and the two suffix tables) *)
(* and the image cache in front of the network (fetch_signwiki_image,      *)
(* get_cached_image, cache_image).                                         *)
(*                                                                         *)
(* A Python str is a sequence of characters; a character is a one-element  *)
(* token.  Non-ASCII characters are written by name: "eth" is U+00F0,      *)
(* "ETH" U+00D0, "oacute"/"OACUTE" U+00F3/U+00D3, "(A)" and "(a)" are the  *)
(* circled letters U+24B6 / U+24D0 (category So: not matched by \w, but    *)
(* with a lowercase mapping).                                              *)
(***************************************************************************)
EXTENDS Naturals, Sequences, FiniteSets, TLC

VARIABLES
    rword,      \* SpecRule: the argument clean_word of _rule_based_process
    rdone,      \* SpecRule: whether the call has been made
    rrun,       \* SpecRule: the call's result and the rule that produced it
    installed,  \* whether "from reynir import Reynir" succeeds in this process
    reynir,     \* process_icelandic_word.reynir: 0 while the attribute is
                \* not set, else the identity of the Reynir instance it holds
    ctorRuns,   \* how many times Reynir() has been called so far
    calls,      \* how many calls of process_icelandic_word have been made
    last,       \* the last call of process_icelandic_word: its argument, how
                \* it ended and what it touched
    signcache,  \* the signcache table: ord -> the row's base64 text, if any
    fcalls,     \* how many calls of fetch_signwiki_image have been made
    got,        \* per word, the image of the last fetch that gave a non-empty one
    flast       \* the last call of fetch_signwiki_image

rvars == <<rword, rdone, rrun>>

pvars == <<installed, reynir, ctorRuns, calls, last>>

fvars == <<signcache, fcalls, got, flast>>

vars == <<rvars, pvars, fvars>>

(***************************************************************************)
(* Characters and the two str operations the code uses.                    *)
(***************************************************************************)

LowerLetters ==
    {"a", "e", "f", "g", "h", "i", "j", "k", "m", "n", "o", "r", "s", "t",
     "u", "v", "x", "eth", "oacute"}

\* upper-case character -> its lower-case form (str.lower())
LowerMap ==
    [c \in {"A", "E", "F", "G", "H", "I", "J", "K", "M", "N", "O", "R", "S",
            "T", "U", "V", "X", "ETH", "OACUTE", "(A)"} |->
        CASE c = "A" -> "a" [] c = "E" -> "e" [] c = "F" -> "f"
          [] c = "G" -> "g" [] c = "H" -> "h" [] c = "I" -> "i"
          [] c = "J" -> "j" [] c = "K" -> "k" [] c = "M" -> "m"
          [] c = "N" -> "n" [] c = "O" -> "o" [] c = "R" -> "r"
          [] c = "S" -> "s" [] c = "T" -> "t" [] c = "U" -> "u"
          [] c = "V" -> "v" [] c = "X" -> "x" [] c = "ETH" -> "eth"
          [] c = "OACUTE" -> "oacute" [] c = "(A)" -> "(a)"]

UpperLetters == DOMAIN LowerMap \ {"(A)"}

Punctuation == {".", "?", "!", "(A)", "(a)"}

Whitespace == {" "}

Char == LowerLetters \cup UpperLetters \cup Punctuation \cup Whitespace

\* str.lower(), character by character
lower(s) == [i \in 1..Len(s) |-> IF s[i] \in DOMAIN LowerMap THEN LowerMap[s[i]] ELSE s[i]]

\* the characters re.sub(r'[^\w\s]', '', s) keeps
IsWordOrSpace(c) == c \in LowerLetters \cup UpperLetters \cup Whitespace

\* re.sub(r'[^\w\s]', '', s)
RECURSIVE strip_punctuation(_)
strip_punctuation(s) ==
    IF s = <<>> THEN <<>>
    ELSE IF IsWordOrSpace(Head(s)) THEN <<Head(s)>> \o strip_punctuation(Tail(s))
    ELSE strip_punctuation(Tail(s))

\* str.endswith(ending)
endswith(s, ending) ==
    /\ Len(ending) <= Len(s)
    /\ SubSeq(s, Len(s) - Len(ending) + 1, Len(s)) = ending

(***************************************************************************)
(* The suffix tables.  A dict display is evaluated entry by entry, left to *)
(* right: a new key is appended, a key already present keeps its position  *)
(* and takes the new value.                                                *)
(***************************************************************************)

E(ending, base) == [ending |-> ending, base |-> base]

RECURSIVE DictInsert(_, _, _)
DictInsert(d, e, i) ==
    IF i > Len(d) THEN Append(d, e)
    ELSE IF d[i].ending = e.ending THEN [d EXCEPT ![i] = e]
    ELSE DictInsert(d, e, i + 1)

RECURSIVE DictDisplay(_, _)
DictDisplay(entries, d) ==
    IF entries = <<>> THEN d
    ELSE DictDisplay(Tail(entries), DictInsert(d, Head(entries), 1))

\* NOUN_ENDINGS display, "# Singular" group, with the second 'ins' entry
\* given another base than the first
NounSingular_conflicting ==
    << E(<<"i","n","n">>, <<"i">>),
       E(<<"i","n","u","m">>, <<"i">>),
       E(<<"i","n","s">>, <<"i">>),
       E(<<"i","n">>, <<"i">>),
       E(<<"i","n","a">>, <<"i">>),
       E(<<"i","n","n","i">>, <<"i">>),
       E(<<"i","n","n","a","r">>, <<"i">>),
       E(<<"i","eth">>, <<"i">>),
       E(<<"i","n","u">>, <<"i">>),
       E(<<"i","n","s">>, <<>>) >>

\* NOUN_ENDINGS display, "# Singular" group, as written
NounSingular ==
    << E(<<"i","n","n">>, <<"i">>),
       E(<<"i","n","u","m">>, <<"i">>),
       E(<<"i","n","s">>, <<"i">>),
       E(<<"i","n">>, <<"i">>),
       E(<<"i","n","a">>, <<"i">>),
       E(<<"i","n","n","i">>, <<"i">>),
       E(<<"i","n","n","a","r">>, <<"i">>),
       E(<<"i","eth">>, <<"i">>),
       E(<<"i","n","u">>, <<"i">>),
       E(<<"i","n","s">>, <<"i">>) >>

\* NOUN_ENDINGS display, "# Plural" group, as written
NounPlural ==
    << E(<<"a","r","n","i","r">>, <<"i">>),
       E(<<"a","n","a">>, <<"i">>),
       E(<<"u","n","u","m">>, <<"i">>),
       E(<<"a","n","n","a">>, <<"i">>),
       E(<<"i","r","n","a","r">>, <<"i">>),
       E(<<"u","n","u","m">>, <<"i">>),
       E(<<"a","n","n","a">>, <<"i">>),
       E(<<"i","n">>, <<"i">>),
       E(<<"u","n","u","m">>, <<"i">>),
       E(<<"a","n","n","a">>, <<"i">>) >>

\* NOUN_ENDINGS display, "# Common case endings" group, as written
NounCommon ==
    << E(<<"a","r">>, <<>>),
       E(<<"u","m">>, <<"u","r">>),
       E(<<"a">>, <<"i">>),
       E(<<"u">>, <<"a">>),
       E(<<"i">>, <<"u","r">>) >>

\* every entry of the NOUN_ENDINGS display, in the order written
NounEntries == NounSingular \o NounPlural \o NounCommon

\* the entries of the VERB_ENDINGS display, as written
VerbEntries ==
    << E(<<"a">>, <<"a">>),
       E(<<"a","r">>, <<"a">>),
       E(<<"u","m">>, <<"a">>),
       E(<<"i","eth">>, <<"a">>),
       E(<<"i","r">>, <<"a">>),
       E(<<"a","eth","i">>, <<"a">>),
       E(<<"a","eth","i","r">>, <<"a">>),
       E(<<"u","eth","u","m">>, <<"a">>),
       E(<<"u","eth","u","eth">>, <<"a">>),
       E(<<"u","eth","u">>, <<"a">>),
       E(<<"oacute","k">>, <<"a","k","a">>),
       E(<<"f","oacute","r">>, <<"f","a","r","a">>),
       E(<<"k","o","m">>, <<"k","o","m","a">>),
       E(<<"t","oacute","k">>, <<"t","a","k","a">>) >>

\* the dict objects the module holds, in iteration order
NOUN_ENDINGS == DictDisplay(NounEntries, <<>>)

VERB_ENDINGS == DictDisplay(VerbEntries, <<>>)

(***************************************************************************)
(* _rule_based_process                                                     *)
(***************************************************************************)

\* the loops' condition without its length comparison
RuleApplies_no_length_check(w, ending) == endswith(w, ending)

\* the condition of both for loops' if
RuleApplies(w, ending) == endswith(w, ending) /\ Len(w) > Len(ending)

\* clean_word[:-len(ending)]
StemOf(w, ending) == SubSeq(w, 1, Len(w) - Len(ending))

\* a for loop over table.items(): the index of the entry whose body returns,
\* 0 when the loop runs to its end
RECURSIVE ScanTable(_, _, _)
ScanTable(table, w, i) ==
    IF i > Len(table) THEN 0
    ELSE IF RuleApplies(w, table[i].ending) THEN i
    ELSE ScanTable(table, w, i + 1)

\* _rule_based_process with its two loops in the other order
RuleRun_nouns_first(verbs, nouns, clean_word, original_word) ==
    LET w == lower(clean_word)
        v == ScanTable(verbs, w, 1)
        n == ScanTable(nouns, w, 1)
    IN  IF w = <<>>
        THEN [result |-> original_word, table |-> "none", ending |-> <<>>, stem |-> <<>>]
        ELSE IF n # 0
        THEN [result |-> IF nouns[n].base # <<>>
                         THEN StemOf(w, nouns[n].ending) \o nouns[n].base
                         ELSE StemOf(w, nouns[n].ending),
              table |-> "noun", ending |-> nouns[n].ending,
              stem |-> StemOf(w, nouns[n].ending)]
        ELSE IF v # 0
        THEN [result |-> StemOf(w, verbs[v].ending) \o verbs[v].base,
              table |-> "verb", ending |-> verbs[v].ending,
              stem |-> StemOf(w, verbs[v].ending)]
        ELSE [result |-> w, table |-> "none", ending |-> <<>>, stem |-> <<>>]

\* one run of _rule_based_process over the given tables: the value returned,
\* the table and ending of the rule applied ("none" when no rule was) and
\* the stem it was applied to
RuleRun(verbs, nouns, clean_word, original_word) ==
    LET w == lower(clean_word)
        v == ScanTable(verbs, w, 1)
        n == ScanTable(nouns, w, 1)
    IN  IF w = <<>>
        THEN [result |-> original_word, table |-> "none", ending |-> <<>>, stem |-> <<>>]
        ELSE IF v # 0
        THEN [result |-> StemOf(w, verbs[v].ending) \o verbs[v].base,
              table |-> "verb", ending |-> verbs[v].ending,
              stem |-> StemOf(w, verbs[v].ending)]
        ELSE IF n # 0
        THEN [result |-> IF nouns[n].base # <<>>
                         THEN StemOf(w, nouns[n].ending) \o nouns[n].base
                         ELSE StemOf(w, nouns[n].ending),
              table |-> "noun", ending |-> nouns[n].ending,
              stem |-> StemOf(w, nouns[n].ending)]
        ELSE [result |-> w, table |-> "none", ending |-> <<>>, stem |-> <<>>]

\* rrun before the call
NoRun == [result |-> <<>>, table |-> "none", ending |-> <<>>, stem |-> <<>>]

\* last before any call
NoCall ==
    [word |-> <<>>, kind |-> "none", value |-> <<>>, path |-> "none",
     attrBefore |-> 0, ctor |-> FALSE, parsed |-> 0, rules |-> FALSE]

rule_based_run(clean_word, original_word) ==
    RuleRun(VERB_ENDINGS, NOUN_ENDINGS, clean_word, original_word)

_rule_based_process(clean_word, original_word) ==
    rule_based_run(clean_word, original_word).result

(***************************************************************************)
(* The image cache: get_cached_image, cache_image, fetch_signwiki_image.   *)
(* bytes are sequences of 0..255; base64 text is a sequence of alphabet    *)
(* indices 0..63, with 64 for the pad character '='.                       *)
(***************************************************************************)

None == [some |-> FALSE, bytes |-> <<>>]

Some(b) == [some |-> TRUE, bytes |-> b]

Pad == 64

\* base64.b64encode(data).decode('ascii')
RECURSIVE b64encode(_)
b64encode(data) ==
    IF data = <<>> THEN <<>>
    ELSE IF Len(data) = 1
    THEN LET n == data[1] * 65536 IN
         << n \div 262144, (n \div 4096) % 64, Pad, Pad >>
    ELSE IF Len(data) = 2
    THEN LET n == data[1] * 65536 + data[2] * 256 IN
         << n \div 262144, (n \div 4096) % 64, (n \div 64) % 64, Pad >>
    ELSE LET n == data[1] * 65536 + data[2] * 256 + data[3] IN
         << n \div 262144, (n \div 4096) % 64, (n \div 64) % 64, n % 64 >>
             \o b64encode(SubSeq(data, 4, Len(data)))

\* base64.b64decode(text), text being a value b64encode gave
RECURSIVE b64decode(_)
b64decode(text) ==
    IF Len(text) < 4 THEN <<>>
    ELSE LET c == text
             n == c[1] * 262144 + c[2] * 4096
                    + (IF c[3] = Pad THEN 0 ELSE c[3] * 64)
                    + (IF c[4] = Pad THEN 0 ELSE c[4])
             b == << n \div 65536, (n \div 256) % 256, n % 256 >>
         IN  (IF c[3] = Pad THEN SubSeq(b, 1, 1)
              ELSE IF c[4] = Pad THEN SubSeq(b, 1, 2)
              ELSE b) \o b64decode(SubSeq(text, 5, Len(text)))

\* a lookup that finds no row whatever the table holds
get_cached_image_no_row(db, word) == None

\* get_cached_image: the decoded row, None without a row
get_cached_image(db, word) ==
    IF db[word].some THEN Some(b64decode(db[word].bytes)) ELSE None

\* cache_image: the table afterwards
cache_image(db, word, image_data) ==
    IF image_data = <<>> THEN db
    ELSE [db EXCEPT ![word] = Some(b64encode(image_data))]

\* "if cached_image:", "if not image_data:" -- None and b'' are false
Truthy(opt) == opt.some /\ opt.bytes # <<>>

\* fetch_signwiki_image.  net is what the network does in this call:
\* net.page in {"error", "no_img", "img"}, net.image in {"error", "ok"},
\* net.content the bytes of the image response
fetch_signwiki_image(db, word, net) ==
    LET cached_image == get_cached_image(db, word) IN
    IF Truthy(cached_image)
    THEN [result |-> cached_image, requests |-> 0, db |-> db]
    ELSE IF net.page = "error"
    THEN [result |-> None, requests |-> 1, db |-> db]
    ELSE IF net.page = "no_img"
    THEN [result |-> None, requests |-> 1, db |-> db]
    ELSE IF net.image = "error"
    THEN [result |-> None, requests |-> 2, db |-> db]
    ELSE [result |-> Some(net.content), requests |-> 2,
          db |-> cache_image(db, word, net.content)]

(***************************************************************************)
(* SpecFetch: a process that calls fetch_signwiki_image up to MaxFetches   *)
(* times; the table starts with any rows earlier runs may have stored.     *)
(***************************************************************************)

MaxImageLen == 2

MaxFetches == 3

ByteValues == {0, 77, 255}

Images == UNION {[1..k -> ByteValues] : k \in 0..MaxImageLen}

CacheKeys == { <<"h","e","s","t","a">>, <<"h","v","a","eth">> }

\* the tables cache_image can have left behind
StoredTables ==
    [CacheKeys -> {None} \cup {Some(b64encode(i)) : i \in {<<77>>, <<0, 255>>}}]

Nets ==
    [page : {"error", "no_img"}, image : {"error"}, content : {<<>>}]
        \cup [page : {"img"}, image : {"error"}, content : {<<>>}]
        \cup [page : {"img"}, image : {"ok"}, content : Images]

NoFetch ==
    [word |-> <<>>, result |-> None, requests |-> 0, gotBefore |-> None]

InitFetch ==
    /\ signcache \in StoredTables
    /\ fcalls = 0
    /\ got = [w \in CacheKeys |-> None]
    /\ flast = NoFetch
    /\ rword = <<>>
    /\ rdone = TRUE
    /\ rrun = NoRun
    /\ installed = FALSE
    /\ reynir = 0
    /\ ctorRuns = 0
    /\ calls = 0
    /\ last = NoCall

Fetch(word, net) ==
    /\ fcalls < MaxFetches
    /\ \E r \in {fetch_signwiki_image(signcache, word, net)} :
        /\ fcalls' = fcalls + 1
        /\ signcache' = r.db
        /\ got' = IF Truthy(r.result) THEN [got EXCEPT ![word] = r.result] ELSE got
        /\ flast' = [word |-> word, result |-> r.result, requests |-> r.requests,
                     gotBefore |-> got[word]]
        /\ UNCHANGED <<rvars, pvars>>

NextFetch == \E word \in CacheKeys, net \in Nets : Fetch(word, net)

SpecFetch == InitFetch /\ [][NextFetch]_vars

(***************************************************************************)
(* process_icelandic_word                                                  *)
(***************************************************************************)

\* the question_words dict: key -> canonical form
question_words ==
    << E(<<"h","v","a","eth">>, <<"h","v","a","eth">>),
       E(<<"h","v","a","eth","a">>, <<"h","v","a","eth">>),
       E(<<"h","v","e","r">>, <<"h","v","e","r">>),
       E(<<"h","v","e","r","s">>, <<"h","v","e","r">>),
       E(<<"h","v","e","r","j","u","m">>, <<"h","v","e","r">>),
       E(<<"h","v","e","r","j","i","r">>, <<"h","v","e","r">>),
       E(<<"h","v","e","r","j","a","r">>, <<"h","v","e","r">>),
       E(<<"h","v","a","r">>, <<"h","v","a","r">>),
       E(<<"h","v","e","r","n","i","g">>, <<"h","v","e","r","n","i","g">>) >>

QuestionKeys == {question_words[i].ending : i \in 1..Len(question_words)}

\* question_words[key]
QuestionLookup(key) ==
    question_words[CHOOSE i \in 1..Len(question_words) : question_words[i].ending = key].base

\* the lookup key computed from the word as it is, punctuation kept
clean_word_lower_unstripped(word) == lower(word)

\* clean_word_lower = re.sub(r'[^\w\s]', '', word).lower()
clean_word_lower(word) == lower(strip_punctuation(word))

\* how a call, or its try block, ends.  kind: "return", or the class of the
\* exception in flight; attr: process_icelandic_word.reynir afterwards;
\* ctor: whether Reynir() was called; parsed: the instance parse_single was
\* called on (0: not called); rules: whether _rule_based_process ran
Outcome(kind, value, path, attr, ctor, parsed, rules) ==
    [kind |-> kind, value |-> value, path |-> path, attr |-> attr,
     ctor |-> ctor, parsed |-> parsed, rules |-> rules]

\* if sent and sent.tree and len(sent.terminals) > 0
HasLemma(sent) == sent.sent /\ sent.tree /\ sent.nterminals > 0

\* the try block.  env is what the parser does in this call: env.ctor,
\* whether Reynir() raises; env.parse, whether parse_single raises; env.exc,
\* the class raised; env.sent, the sentence parse_single returns
TryBlock(word, attr, serial, env) ==
    LET clean_word == strip_punctuation(word) IN
    IF ~env.installed
    THEN Outcome("ImportError", <<>>, "import", attr, FALSE, 0, FALSE)
    ELSE IF clean_word = <<>>
    THEN Outcome("return", word, "empty", attr, FALSE, 0, FALSE)
    ELSE IF attr = 0 /\ env.ctor = "raise"
    THEN Outcome(env.exc, <<>>, "ctor", attr, TRUE, 0, FALSE)
    ELSE LET inst == IF attr = 0 THEN serial + 1 ELSE attr IN
         IF env.parse = "raise"
         THEN Outcome(env.exc, <<>>, "parse", inst, attr = 0, inst, FALSE)
         ELSE IF HasLemma(env.sent)
         THEN Outcome("return", env.sent.lemma, "lemma", inst, attr = 0, inst, FALSE)
         ELSE Outcome("return", _rule_based_process(clean_word, word),
                      "parse_failed", inst, attr = 0, inst, TRUE)

\* the function without its "except Exception" clause
ExceptException_absent(word, t) == t

\* an exception that no except clause catches leaves the function
Propagate(word, t) == t

\* except ImportError: return _rule_based_process(word, word)
ExceptImportError(word, t) ==
    [t EXCEPT !.kind = "return", !.value = _rule_based_process(word, word),
              !.rules = TRUE]

\* except Exception as e: return _rule_based_process(word, word)
ExceptException(word, t) ==
    [t EXCEPT !.kind = "return", !.value = _rule_based_process(word, word),
              !.rules = TRUE]

process_icelandic_word(word, attr, serial, env) ==
    IF clean_word_lower(word) \in QuestionKeys
    THEN Outcome("return", QuestionLookup(clean_word_lower(word)), "override",
                 attr, FALSE, 0, FALSE)
    ELSE LET t == TryBlock(word, attr, serial, env) IN
         CASE t.kind = "return" -> t
           [] t.kind = "ImportError" -> ExceptImportError(word, t)
           [] t.kind = "Exception" -> ExceptException(word, t)
           [] OTHER -> Propagate(word, t)

(***************************************************************************)
(* Spec: a process that calls process_icelandic_word up to MaxCalls times, *)
(* on any word, with any behaviour of the parser.                          *)
(***************************************************************************)

MaxCalls == 2

MaxPunctLen == 2

\* str.upper() on the modelled letters
upper(s) ==
    [i \in 1..Len(s) |->
        IF s[i] \in LowerLetters
        THEN CHOOSE u \in UpperLetters : LowerMap[u] = s[i]
        ELSE s[i]]

capitalize(s) == IF s = <<>> THEN s ELSE upper(<<Head(s)>>) \o Tail(s)

CoreWords ==
    QuestionKeys \cup
        { <<"h","e","s","t","a","r">>, <<"j","oacute","n">>, <<"a">> }

CasedWords == UNION {{w, capitalize(w), upper(w)} : w \in CoreWords}

\* tokens without any word character
SymbolWords ==
    UNION {[1..k -> {".", "(A)"}] : k \in 1..MaxPunctLen} \cup {<<" ">>}

\* the inputs the specification names
ExampleWords ==
    { <<"H","v","a","eth","?">>, <<"H","V","A","ETH">>, <<".",".",".">> }

Words ==
    {w \o p : w \in CasedWords, p \in {<<>>, <<".">>, <<"?">>}}
        \cup SymbolWords \cup ExampleWords

\* the lemmas the parser may give
Lemmas == { <<"h","e","s","t","u","r">>, <<"J","oacute","n">> }

\* what parse_single may return when it returns
Sentences ==
    [sent : {TRUE}, tree : {TRUE}, nterminals : {1}, lemma : Lemmas]
        \cup { [sent |-> FALSE, tree |-> FALSE, nterminals |-> 0, lemma |-> <<>>],
               [sent |-> TRUE, tree |-> FALSE, nterminals |-> 0, lemma |-> <<>>],
               [sent |-> TRUE, tree |-> TRUE, nterminals |-> 0, lemma |-> <<>>] }

\* what the parser may do in one call: Reynir() raises or returns,
\* parse_single raises or returns a sentence
Envs ==
    { e \in [installed : {installed}, ctor : {"ok", "raise"},
              parse : {"ok", "raise"}, exc : {"ImportError", "Exception"},
              sent : Sentences] :
        /\ e.parse = "raise" => ~e.sent.sent
        /\ (e.ctor = "ok" /\ e.parse = "ok") => e.exc = "Exception" }

Init ==
    /\ installed \in BOOLEAN
    /\ reynir = 0
    /\ ctorRuns = 0
    /\ calls = 0
    /\ last = NoCall
    /\ rword = <<>>
    /\ rdone = TRUE
    /\ rrun = NoRun
    /\ signcache = [w \in CacheKeys |-> None]
    /\ fcalls = 0
    /\ got = [w \in CacheKeys |-> None]
    /\ flast = NoFetch

Call(word, env) ==
    /\ calls < MaxCalls
    /\ \E r \in {process_icelandic_word(word, reynir, ctorRuns, env)} :
        /\ calls' = calls + 1
        /\ reynir' = r.attr
        /\ ctorRuns' = IF r.ctor THEN ctorRuns + 1 ELSE ctorRuns
        /\ last' = [word |-> word, kind |-> r.kind, value |-> r.value,
                    path |-> r.path, attrBefore |-> reynir, ctor |-> r.ctor,
                    parsed |-> r.parsed, rules |-> r.rules]
        /\ UNCHANGED <<installed, rvars, fvars>>

Next == \E word \in Words, env \in Envs : Call(word, env)

Spec == Init /\ [][Next]_vars

(***************************************************************************)
(* SpecRule: _rule_based_process applied once to a word drawn from         *)
(* stems x tails, the tails covering every ending of both tables.          *)
(***************************************************************************)

MaxStemLen == 2

StemAlphabet == {"h", "a", "n"}

Stems == UNION {[1..k -> StemAlphabet] : k \in 0..MaxStemLen}

TableEndings ==
    {NounEntries[i].ending : i \in 1..Len(NounEntries)}
        \cup {VerbEntries[i].ending : i \in 1..Len(VerbEntries)}

Tails == TableEndings \cup {<<>>, <<"x">>, <<"u","r">>}

RuleWords == {s \o t : s \in Stems, t \in Tails}

InitRule ==
    /\ rword \in RuleWords
    /\ rdone = FALSE
    /\ rrun = NoRun
    /\ installed = FALSE
    /\ reynir = 0
    /\ ctorRuns = 0
    /\ calls = 0
    /\ last = NoCall
    /\ signcache = [w \in CacheKeys |-> None]
    /\ fcalls = 0
    /\ got = [w \in CacheKeys |-> None]
    /\ flast = NoFetch

CallRuleBased ==
    /\ ~rdone
    /\ rdone' = TRUE
    /\ rrun' = rule_based_run(rword, rword)
    /\ UNCHANGED <<rword, pvars, fvars>>

NextRule == CallRuleBased

SpecRule == InitRule /\ [][NextRule]_vars

(***************************************************************************)
(* Properties of _rule_based_process (SpecRule).                           *)
(***************************************************************************)

\* ending is a suffix of w that leaves the non-empty stem w[1..k]
SplitsAt(w, ending, k) ==
    /\ k \in 1..(Len(w) - 1)
    /\ Len(ending) = Len(w) - k
    /\ \A j \in 1..Len(ending) : w[k + j] = ending[j]

IsProperSuffix(w, ending) == \E k \in 1..Len(w) : SplitsAt(w, ending, k)

\* entry i is the first entry of table, in table order, that is a proper suffix of w
IsFirstMatch(table, w, i) ==
    /\ IsProperSuffix(w, table[i].ending)
    /\ \A j \in 1..(i - 1) : ~IsProperSuffix(w, table[j].ending)

NoMatch(table, w) == \A i \in 1..Len(table) : ~IsProperSuffix(w, table[i].ending)

\* the word with entry e's ending replaced by its base
Rewritten(w, e) == SubSeq(w, 1, Len(w) - Len(e.ending)) \o e.base

\* C7: for a non-empty lowercased word the result is stem+base of the first
\* verb entry, in table order, that is a proper suffix of the word; with no
\* such verb entry, of the first such noun entry; with neither, the word
\* itself.  A word with a proper suffix 'a', 'ar', 'um' or 'ið' is resolved
\* by the verb table, whatever noun entry it also matches.
C7_FirstMatchVerbsBeforeNouns ==
    (rdone /\ rword # <<>>) =>
        /\ \A i \in 1..Len(VERB_ENDINGS) :
              IsFirstMatch(VERB_ENDINGS, rword, i)
                  => rrun.result = Rewritten(rword, VERB_ENDINGS[i])
        /\ NoMatch(VERB_ENDINGS, rword) =>
              \A i \in 1..Len(NOUN_ENDINGS) :
                  IsFirstMatch(NOUN_ENDINGS, rword, i)
                      => rrun.result = Rewritten(rword, NOUN_ENDINGS[i])
        /\ (NoMatch(VERB_ENDINGS, rword) /\ NoMatch(NOUN_ENDINGS, rword))
              => rrun.result = rword
        /\ (\E e \in {<<"a">>, <<"a","r">>, <<"u","m">>, <<"i","eth">>} :
                IsProperSuffix(rword, e))
              => /\ rrun.table = "verb"
                 /\ rrun.result = rrun.stem \o <<"a">>

\* 'hinum' ends in the noun ending 'inum' and in the shorter verb ending
\* 'um': the verb table decides, giving 'hina' and not 'hi'
C7_Witness ==
    /\ rdone
    /\ rword = <<"h","i","n","u","m">>
    /\ IsProperSuffix(rword, <<"i","n","u","m">>)
    /\ rrun.result = <<"h","i","n","a">>

\* C8: a rule is applied only to a stem of length at least 1, so no result
\* is built from an empty stem; a token equal to a table ending is rewritten
\* by an entry with a strictly shorter ending or returned unchanged.
C8_ProperSuffixGuard ==
    rdone =>
        /\ rrun.table # "none" =>
              /\ Len(rrun.stem) >= 1
              /\ rrun.ending # rword
              /\ rrun.stem \o rrun.ending = rword
        /\ rword \in TableEndings =>
              \/ rrun.table = "none" /\ rrun.result = rword
              \/ rrun.table # "none" /\ Len(rrun.ending) < Len(rword)

\* the token 'inni' is itself a noun ending: that entry is skipped and the
\* later entry 'i' rewrites it
C8_Witness ==
    /\ rdone
    /\ rword = <<"i","n","n","i">>
    /\ rword \in TableEndings
    /\ rrun.table = "noun"
    /\ rrun.ending = <<"i">>
    /\ rrun.result = <<"i","n","n","u","r">>

\* C9: the result over the dict the module holds (a repeated key once, at
\* its first position, with its last value) equals the result over the list
\* of all entries as written, repeats included, first match winning.
C9_DuplicateKeysChangeNothing ==
    rdone => rrun.result = RuleRun(VERB_ENDINGS, NounEntries, rword, rword).result

\* 'hins' is rewritten by the repeated key 'ins'; the dict is shorter than
\* the written list
C9_Witness ==
    /\ rdone
    /\ rword = <<"h","i","n","s">>
    /\ rrun.table = "noun"
    /\ rrun.ending = <<"i","n","s">>
    /\ rrun.result = <<"h","i">>
    /\ Len(NOUN_ENDINGS) < Len(NounEntries)

(***************************************************************************)
(* Properties of process_icelandic_word (Spec).                            *)
(***************************************************************************)

Called == calls > 0

\* the last call reached the parser adapter and got no lemma from it
NoLemma == last.path \in {"import", "ctor", "parse", "parse_failed"}

\* C1: when the adapter yields no lemma for a word whose cleaned form is
\* non-empty and no override, the call returns the rule-based result for the
\* punctuation-stripped word, the same in every failure mode.
C1_FallbackOnCleanedForm ==
    (Called /\ NoLemma /\ strip_punctuation(last.word) # <<>>
        /\ clean_word_lower(last.word) \notin QuestionKeys)
      => /\ last.kind = "return"
         /\ last.value = _rule_based_process(strip_punctuation(last.word), last.word)

\* C2: every call ends by returning one string; no exception leaves it,
\* whatever the word and whatever the parser does.
C2_Total ==
    Called => (last.kind = "return" /\ last.value \in Seq(Char))

\* parse_single raised on a whitespace word and the call still returned
C2_Witness ==
    /\ Called
    /\ last.word = <<" ">>
    /\ last.path = "parse"
    /\ last.kind = "return"
    /\ last.value = <<" ">>

\* C3: a word whose cleaned, lowercased form is a key of question_words
\* gives that key's canonical form; the call does not construct or invoke
\* the parser, does not run the suffix rules and leaves the parser
\* attribute as it was.
C3_OverridePrecedence ==
    (Called /\ lower(strip_punctuation(last.word)) \in QuestionKeys) =>
        /\ last.kind = "return"
        /\ \E i \in 1..Len(question_words) :
              /\ question_words[i].ending = lower(strip_punctuation(last.word))
              /\ last.value = question_words[i].base
        /\ ~last.ctor /\ last.parsed = 0 /\ ~last.rules
        /\ reynir = last.attrBefore
        /\ last.word \in {<<"H","v","a","eth","?">>, <<"H","V","A","ETH">>}
              => last.value = <<"h","v","a","eth">>
        /\ last.word = <<"h","v","a","r">> => last.value = <<"h","v","a","r">>

\* 'Hvað?' gives 'hvað' in a process whose parser is installed and built
C3_Witness ==
    /\ Called
    /\ installed
    /\ reynir # 0
    /\ last.word = <<"H","v","a","eth","?">>
    /\ last.path = "override"
    /\ last.value = <<"h","v","a","eth">>

\* C4: a word that cleaning empties is returned unchanged, with the parser
\* available, absent or failing.
C4_EmptyAfterCleaning ==
    (Called /\ strip_punctuation(last.word) = <<>>) =>
        (last.kind = "return" /\ last.value = last.word)

\* C5: Reynir() runs at most once in a process, also when it raises, and a
\* call that reaches the parser while the attribute is set uses the
\* instance the attribute holds.
C5_LazySingleton ==
    /\ ctorRuns <= 1
    /\ (last.parsed # 0 /\ last.attrBefore # 0) => last.parsed = last.attrBefore

\* C6: every returned string equals its own lowercasing.
C6_OutputLowercase ==
    (Called /\ last.kind = "return") => last.value = lower(last.value)

(***************************************************************************)
(* Properties of fetch_signwiki_image (SpecFetch).                         *)
(***************************************************************************)

\* C10: once a fetch for a word has given non-empty image bytes, a later
\* fetch for that word returns exactly those bytes and makes no network
\* request.
C10_CacheBeforeNetwork ==
    flast.gotBefore.some =>
        /\ flast.result = flast.gotBefore
        /\ flast.requests = 0

\* a word fetched from the network (no row before) is fetched again and the
\* second fetch gives the same two bytes without a request
C10_Witness ==
    /\ fcalls >= 2
    /\ flast.gotBefore = Some(<<0, 255>>)
    /\ flast.word = <<"h","v","a","eth">>
    /\ flast.result = Some(<<0, 255>>)
    /\ flast.requests = 0
    /\ signcache[flast.word] = Some(b64encode(<<0, 255>>))

====
